---- MODULE Spec2Model ----
(***************************************************************************)
(* PackageManagerShellCommandDataLoader (src/unnamed/part_000).            *)
(*                                                                         *)
(* The state machines of this module:                                     *)
(*   Spec        onPrepareImage: openInputs, copyToIncFs, flashToIncFs     *)
(*               and the hand-over to initStreaming;                       *)
(*   StreamSpec  initStreaming, the receiver thread, onPendingReads and    *)
(*               onStop, with the peer of the streaming channel;           *)
(*               StreamFairSpec adds the scheduling of the loader's        *)
(*               threads.                                                  *)
(*   TraceSpec   the trace-tag watcher, onCreate and updateReadLogsState;  *)
(*   TreeSpec    verityTreeSizeForFile applied to a range of file sizes;   *)
(*   IdSpec      the FileId conversions applied to every FileIdx.          *)
(*                                                                         *)
(* Sizes are scaled down: the block size and the buffer size of the        *)
(* source (4096 and 256 KiB) are replaced by a few bytes so that every     *)
(* byte of the buffer can be followed.  The buffer stays a whole number of *)
(* blocks, as in the source.                                               *)
(***************************************************************************)
EXTENDS Integers, Sequences, FiniteSets, TLC

(* ------------------------------------------------------------------ *)
(* Bounds of the model                                                  *)
(* ------------------------------------------------------------------ *)

\* INCFS_DATA_FILE_BLOCK_SIZE, scaled down from 4096.
INCFS_DATA_FILE_BLOCK_SIZE == 4

\* BLOCKS_COUNT, scaled down from 64: blocks held by the assembler buffer.
BLOCKS_COUNT == 2

\* SHA256_DIGEST_SIZE, scaled down from 32 with the block size.
SHA256_DIGEST_SIZE == 1

\* Files handed to one onPrepareImage call.
MaxFiles == 2

\* Declared file sizes go up to BUFFER_SIZE + ExtraBytes.
ExtraBytes == 2

\* read() calls returning 0 that one copyToIncFs call may see.
MaxZeroReads == 1

\* Chunks the peer sends in one streaming session.
MaxChunks == 2

\* Chunks the channel holds that the receiver has not read yet.
MaxInbox == 1

\* onPendingReads calls in one session, and entries in one call.
MaxPendingCalls == 2
MaxPendingReads == 1

\* Streaming files have FileIdx 0 .. MaxFileIdx.
MaxFileIdx == 1

\* Payload bytes of a well-formed streamed block.
PayloadSize == 2

\* Largest block index of a pending read.
MaxBlockIdx == 1

\* Loaders created in the process.
MaxLoaders == 2

\* Changes of the trace tag.
MaxToggles == 3

\* Largest file size given to verityTreeSizeForFile.
MaxTreeFileSize == 90

(* ------------------------------------------------------------------ *)
(* Program constants                                                    *)
(* ------------------------------------------------------------------ *)

BUFFER_SIZE == BLOCKS_COUNT * INCFS_DATA_FILE_BLOCK_SIZE

STDIN == 0
LOCAL_FILE == 1
DATA_ONLY_STREAMING == 2
STREAMING == 3

EXIT == 0
BLOCK_MISSING == 1
PREFETCH == 2

HEADER_SIZE == 2 + 1 + 1 + 4 + 2

INCFS_BLOCK_KIND_DATA == 0
INCFS_BLOCK_KIND_HASH == 1

\* A byte of the buffer that resize() created and no read() filled.
Fill == 0

MaxFileSize == BUFFER_SIZE + ExtraBytes

\* The first byte of a metadata blob: the four modes and one unknown value.
MetadataModes == STDIN .. (STREAMING + 1)

\* No MetadataMode: no streaming input, no initStreaming call so far.
NoMode == -1

VARIABLES
    ppc,            \* position of onPrepareImage
    prepResult,     \* "none" while running, then "true" or "false"
    fileCount,      \* files of addedFiles taken so far
    inputs,         \* InputDescs of the current file
    inputIx,        \* index of the current input in inputs
    streamingFd,    \* streamingFd.ok()
    streamingMode,  \* mode remembered with streamingFd
    buffer,         \* the assembler buffer: source offsets (1..) or Fill
    remaining,      \* copyToIncFs: remaining
    totalSize,      \* copyToIncFs: totalSize
    blockIdx,       \* copyToIncFs: blockIdx, the page cursor
    zeroReads,      \* read() == 0 results seen by this copyToIncFs call
    submitted,      \* blocks given to writeBlocks for the current input, in order
    lastFlush,      \* the most recent flashToIncFs call
    nWriteCalls,    \* writeBlocks calls made for the current input
    fault,          \* the first failure a collaborator reported, or "none"
    missingData,    \* a LOCAL_FILE data file request returned -1
    idsigMismatch,  \* an .idsig declared a tree size other than the computed one
    nSpecialOps,    \* openForSpecialOps calls onPrepareImage has made
    handshake,      \* what initStreaming read where it expects OKAY
    firstStreaming, \* mode of the first input with the streaming flag, NoMode before
    initCalls,      \* initStreaming calls made
    initMode,       \* the mode initStreaming was given, NoMode before
    receiverStarted \* initStreaming created mReceiverThread

VARIABLES
    mStopReceiving,  \* std::atomic<bool> mStopReceiving
    eventSignalled,  \* the counter of mEventFd is not zero
    mOutFd,          \* mOutFd >= 0
    mOutFdLock,      \* holder of mOutFdLock, or "none"
    mRequestedFiles, \* std::unordered_set<FileIdx>
    rpc,             \* position of the receiver thread
    data,            \* receiver: the chunk being walked
    pos,             \* receiver: headers of data decoded so far
    off,             \* receiver: bytes of data consumed so far
    instructions,    \* receiver: pending IncFsDataBlock instructions
    writeFds,        \* receiver: FileIdx with an open write fd
    inbox,           \* chunks on the channel, not yet read
    peerClosed,      \* the peer closed the channel
    chunksSent,      \* chunks the peer has put on the channel
    writing,         \* threads inside sendRequest's WriteFully
    exitSends,       \* sendRequest(EXIT) calls made
    prefetchSends,   \* per FileIdx: sendRequest(PREFETCH) calls made
    prefetchOk,      \* per FileIdx: those that returned true
    blocksWritten,   \* receiver: instructions handed to writeBlocks
    writeCalls,      \* receiver: writeInstructions calls made
    chunksRead,      \* chunks readChunk has returned
    statusReports,   \* reportStatus(DATA_LOADER_UNRECOVERABLE) calls
    sentinelAt,      \* set when a chunk's first header is the sentinel
    spc,             \* position of onStop
    qpc,             \* position of onPendingReads
    prCalls,         \* onPendingReads calls started
    prIx,            \* entries of the current call taken so far
    prCur,           \* FileIdx of the entry being handled
    prBlock,         \* blockIdx of the entry being handled
    lastSend,        \* the command of the sendRequest call onPendingReads is in
    missingSends,    \* sendRequest(BLOCK_MISSING) calls made
    validEntries,    \* entries whose file id gave a FileIdx >= 0
    stopWhileRunning, \* onStop was called on a receiver in its loop, no stop seen yet
    headerFault      \* the receiver met an invalid header

VARIABLES
    traceTag,         \* atrace_is_tag_enabled(ATRACE_TAG)
    toggles,          \* changes of the trace tag so far
    cpc,              \* position of the mChecker thread, "off" before it exists
    oldTrace,         \* mChecker: oldTrace
    newTrace,         \* mChecker: newTrace
    toNotify,         \* mChecker: callbacks the for loop has not reached yet
    cCur,             \* mChecker: the callback inside updateReadLogsState
    mMutex,           \* holder of OnTraceChanged::mMutex, or "none"
    mCallbacks,       \* OnTraceChanged::mCallbacks
    mReadLogsEnabled, \* per loader: std::atomic<bool> mReadLogsEnabled
    lpc,              \* per loader: position of onCreate
    setParamsCalls    \* per loader: the values passed to setParams, in order

VARIABLES
    treeFileSize,     \* the argument of verityTreeSizeForFile
    treeResult        \* its result, NotComputed before the call

VARIABLES
    idMode,           \* the mode given to convertFileIndexToFileId
    idFileIdx,        \* the fileIdx given to convertFileIndexToFileId
    idFileId,         \* the FileId it returned
    idBack,           \* convertFileIdToFileIndex of that FileId
    idAgain,          \* convertFileIndexToFileId of that index
    ipc               \* conversions made so far

streamVars == <<mStopReceiving, eventSignalled, mOutFd, mOutFdLock,
                mRequestedFiles, rpc, data, pos, off, instructions, writeFds,
                inbox, peerClosed, chunksSent, writing, exitSends,
                prefetchSends, prefetchOk, blocksWritten, writeCalls, chunksRead, statusReports, sentinelAt,
                spc, qpc, prCalls, prIx, prCur, prBlock, lastSend,
                missingSends, validEntries, stopWhileRunning, headerFault>>

stopVars == <<stopWhileRunning, headerFault>>

sendVars == <<prBlock, lastSend, missingSends, validEntries>>

prepVars == <<ppc, prepResult, fileCount, inputs, inputIx, streamingFd,
              streamingMode, buffer, remaining, totalSize, blockIdx,
              zeroReads, submitted, lastFlush, nWriteCalls, fault,
              missingData, idsigMismatch, nSpecialOps, handshake, firstStreaming, initCalls, initMode, receiverStarted>>

traceVars == <<traceTag, toggles, cpc, oldTrace, newTrace, toNotify, cCur,
               mMutex, mCallbacks, mReadLogsEnabled, lpc, setParamsCalls>>

treeVars == <<treeFileSize, treeResult>>

idVars == <<idMode, idFileIdx, idFileId, idBack, idAgain, ipc>>

vars == <<prepVars, streamVars, traceVars, treeVars, idVars>>

(* ------------------------------------------------------------------ *)
(* Pure helpers                                                         *)
(* ------------------------------------------------------------------ *)

\* C++ integer division, b > 0: truncates toward zero.
CDiv(a, b) == IF a >= 0 THEN a \div b ELSE -((-a) \div b)

Min(a, b) == IF a <= b THEN a ELSE b

hash_per_block == INCFS_DATA_FILE_BLOCK_SIZE \div SHA256_DIGEST_SIZE

RECURSIVE VerityLevels(_, _)
VerityLevels(hash_block_count, total_tree_block_count) ==
    IF hash_block_count > 1
    THEN LET next == CDiv(hash_block_count + hash_per_block - 1, hash_per_block)
         IN  VerityLevels(next, total_tree_block_count + next)
    ELSE total_tree_block_count

\* A bug the tree-size rule excludes: the block count is rounded down.
verityTreeSizeRoundedDown(fileSize) ==
    LET block_count == CDiv(fileSize, INCFS_DATA_FILE_BLOCK_SIZE)
    IN  VerityLevels(block_count, 0) * INCFS_DATA_FILE_BLOCK_SIZE

verityTreeSizeForFile(fileSize) ==
    LET block_count == 1 + CDiv(fileSize - 1, INCFS_DATA_FILE_BLOCK_SIZE)
    IN  VerityLevels(block_count, 0) * INCFS_DATA_FILE_BLOCK_SIZE

InputDesc(fd, size, kind, waitOnEof, streaming, mode) ==
    [fd |-> fd, size |-> size, kind |-> kind, waitOnEof |-> waitOnEof,
     streaming |-> streaming, mode |-> mode]

\* A bug the idsig validation excludes: the declared tree size is not
\* compared with the computed one.
openLocalFileUnvalidated(size, idsigOk, actualTreeSize, fileOk) ==
    (IF idsigOk
     THEN <<InputDesc("idsig", verityTreeSizeForFile(size), INCFS_BLOCK_KIND_HASH,
                      FALSE, FALSE, STDIN)>>
     ELSE <<>>)
    \o (IF fileOk
        THEN <<InputDesc("file", size, INCFS_BLOCK_KIND_DATA, FALSE, FALSE, STDIN)>>
        ELSE <<>>)

\* openLocalFile: idsigOk and fileOk are the resolver's answers for
\* <path>.idsig and <path>; actualTreeSize is what skipIdSigHeaders returns.
openLocalFile(size, idsigOk, actualTreeSize, fileOk) ==
    LET treeSize == verityTreeSizeForFile(size)
        hashInput == IF idsigOk
                     THEN <<InputDesc("idsig", treeSize, INCFS_BLOCK_KIND_HASH,
                                      FALSE, FALSE, STDIN)>>
                     ELSE <<>>
        dataInput == IF fileOk
                     THEN <<InputDesc("file", size, INCFS_BLOCK_KIND_DATA,
                                      FALSE, FALSE, STDIN)>>
                     ELSE <<>>
    IN  IF idsigOk /\ treeSize # actualTreeSize
        THEN <<>>
        ELSE hashInput \o dataInput

\* openInputs: stdinOk is the resolver's answer for getStdIn.
openInputs(size, mode, idsigOk, actualTreeSize, fileOk, stdinOk) ==
    IF mode = LOCAL_FILE
    THEN openLocalFile(size, idsigOk, actualTreeSize, fileOk)
    ELSE IF ~stdinOk
    THEN <<>>
    ELSE CASE mode = STDIN ->
                <<InputDesc("stdin", size, INCFS_BLOCK_KIND_DATA, TRUE, FALSE, STDIN)>>
           [] mode = DATA_ONLY_STREAMING ->
                <<InputDesc("stdin", verityTreeSizeForFile(size),
                            INCFS_BLOCK_KIND_HASH, TRUE, TRUE, DATA_ONLY_STREAMING)>>
           [] mode = STREAMING ->
                <<InputDesc("stdin", 0, INCFS_BLOCK_KIND_DATA, FALSE, TRUE, STREAMING)>>
           [] OTHER -> <<>>

\* A bug the short-block rule excludes: the tail is emitted at every flush.
emitTailAtEveryFlush(remain, eof) == remain # 0

\* Line 541, "if (remain && eof)": the bytes after the last full block are
\* emitted as a short block.
emitTail(remain, eof) == remain # 0 /\ eof

\* A bug the page-index rule excludes: the cursor is not advanced.
pageIndexNotAdvanced(cursor, emitted) == cursor

\* Lines 531 and 544, ".pageIndex = (*blockIdx)++": the page index of the
\* instruction built after `emitted` others of the same call.
pageIndexOf(cursor, emitted) == cursor + emitted

\* The IncFsDataBlock instructions one flashToIncFs call builds from buf.
flashToIncFs(buf, cursor, kind, eof) ==
    LET fullBlocks == Len(buf) \div INCFS_DATA_FILE_BLOCK_SIZE
        full == [i \in 1 .. fullBlocks |->
                    [pageIndex |-> pageIndexOf(cursor, i - 1),
                     kind      |-> kind,
                     dataSize  |-> INCFS_DATA_FILE_BLOCK_SIZE,
                     data      |-> SubSeq(buf, (i - 1) * INCFS_DATA_FILE_BLOCK_SIZE + 1,
                                               i * INCFS_DATA_FILE_BLOCK_SIZE)]]
        remain == Len(buf) - fullBlocks * INCFS_DATA_FILE_BLOCK_SIZE
        tail == IF emitTail(remain, eof)
                THEN <<[pageIndex |-> pageIndexOf(cursor, fullBlocks),
                        kind      |-> kind,
                        dataSize  |-> remain % 65536,
                        data      |-> SubSeq(buf, fullBlocks * INCFS_DATA_FILE_BLOCK_SIZE + 1,
                                                  Len(buf))]>>
                ELSE <<>>
        consumed == fullBlocks * INCFS_DATA_FILE_BLOCK_SIZE
                    + (IF emitTail(remain, eof) THEN remain ELSE 0)
    IN  [blocks   |-> full \o tail,
         consumed |-> consumed,
         cursor   |-> pageIndexOf(cursor, Len(full \o tail))]

\* A bug the flush rule excludes: the buffer is cleared by every flush.
eraseAll(buf, consumed) == <<>>

\* Line 557, buffer->erase(begin, begin + consumed): what stays in the buffer.
eraseConsumed(buf, consumed) == SubSeq(buf, consumed + 1, Len(buf))

\* flashToIncFs's verdict on the result of writeBlocks.
flashSucceeded(res, count) == ~(res < 0)

\* What writeBlocks may return for count instructions.
WriteResults(count) == {-1} \cup (0 .. count)

\* What read(fd, buf, toRead) may return.
ReadResults(toRead) == {-1} \cup (0 .. toRead)

\* Source bytes number from + 1 to from + n.
SourceBytes(from, n) == [i \in 1 .. n |-> from + i]

FillBytes(n) == [i \in 1 .. n |-> Fill]

(* ------------------------------------------------------------------ *)
(* FileId and FileIdx                                                   *)
(* ------------------------------------------------------------------ *)

FileIdxs == 0 .. MaxFileIdx

\* std::numeric_limits<FileIdx>::min() and max(), FileIdx being int16_t.
FileIdxMin == -32768
FileIdxMax == 32767

Loaders == 1 .. MaxLoaders

DigitChars == <<"0", "1", "2", "3", "4", "5", "6", "7", "8", "9">>

RECURSIVE Digits(_)
Digits(n) ==
    IF n < 10
    THEN <<DigitChars[n + 1]>>
    ELSE Digits(n \div 10) \o <<DigitChars[(n % 10) + 1]>>

\* std::to_chars of an int16_t: at most six characters, so it fits bytes 1..15.
to_chars(n) == IF n < 0 THEN <<"-">> \o Digits(-n) ELSE Digits(n)

IsDigit(c) == \E d \in 1 .. 10 : DigitChars[d] = c

DigitValue(c) == (CHOOSE d \in 1 .. 10 : DigitChars[d] = c) - 1

RECURSIVE DigitPrefix(_)
DigitPrefix(text) ==
    IF text = <<>> \/ ~IsDigit(Head(text))
    THEN <<>>
    ELSE <<Head(text)>> \o DigitPrefix(Tail(text))

RECURSIVE DigitsValue(_, _)
DigitsValue(text, acc) ==
    IF text = <<>> THEN acc
    ELSE DigitsValue(Tail(text), 10 * acc + DigitValue(Head(text)))

\* A bug the round trip excludes: a parse that takes no minus sign.
from_charsUnsigned(text) ==
    LET digits == DigitPrefix(text)
    IN  IF digits = <<>>
        THEN [ok |-> FALSE, value |-> 0]
        ELSE [ok |-> TRUE, value |-> DigitsValue(digits, 0)]

\* std::from_chars into an int: an optional '-', then the leading digits.
from_chars(text) ==
    LET negative == text # <<>> /\ Head(text) = "-"
        digits == DigitPrefix(IF negative THEN Tail(text) ELSE text)
        value == IF negative THEN -DigitsValue(digits, 0) ELSE DigitsValue(digits, 0)
    IN  IF digits = <<>> \/ value < -2147483647 - 1 \/ value > 2147483647
        THEN [ok |-> FALSE, value |-> 0]
        ELSE [ok |-> TRUE, value |-> value]

\* A FileId: byte 0 and the text in bytes 1..15 up to the first NUL.
FileId(mode, text) == [mode |-> mode, text |-> text]

convertFileIdToFileIndex(fileId) ==
    IF fileId.mode # DATA_ONLY_STREAMING /\ fileId.mode # STREAMING
    THEN -1
    ELSE LET res == from_chars(fileId.text)
         IN  IF ~res.ok \/ res.value < -32768 \/ res.value > 32767
             THEN -1
             ELSE res.value

convertFileIndexToFileId(mode, fileIdx) == FileId(mode, to_chars(fileIdx))

\* incfs: the id that isValidFileId rejects.
kIncFsInvalidFileId == FileId(-1, <<>>)

isValidFileId(fileId) == fileId # kIncFsInvalidFileId

(* ------------------------------------------------------------------ *)
(* Wire format of the streaming channel                                 *)
(* ------------------------------------------------------------------ *)

BlockHeader(f, t, c, b, s) ==
    [fileIdx |-> f, blockType |-> t, compressionType |-> c, blockIdx |-> b,
     blockSize |-> s]

\* struct BlockHeader's default member initialisers.
DefaultHeader == BlockHeader(-1, -1, -1, -1, -1)

SentinelHeader == BlockHeader(-1, 0, 0, 0, 0)

DataHeader(f, b) == BlockHeader(f, INCFS_BLOCK_KIND_DATA, 0, b, PayloadSize)

\* Lines 699-700.
isSentinel(h) ==
    /\ h.fileIdx = -1
    /\ h.blockType = 0
    /\ h.compressionType = 0
    /\ h.blockIdx = 0
    /\ h.blockSize = 0

\* Lines 708-709.
isInvalidHeader(h) ==
    \/ h.fileIdx < 0
    \/ h.blockSize <= 0
    \/ h.blockType < 0
    \/ h.compressionType < 0
    \/ h.blockIdx < 0

RECURSIVE RecordBytes(_)
RecordBytes(hdrs) ==
    IF hdrs = <<>> THEN 0
    ELSE HEADER_SIZE
         + (IF isInvalidHeader(Head(hdrs)) THEN 0 ELSE Head(hdrs).blockSize)
         + RecordBytes(Tail(hdrs))

\* A chunk: len bytes in which the walk of the receiver meets the headers
\* hdrs; delta bytes follow (or, negative, are missing from) the last record.
Chunk(hdrs, delta) ==
    [kind |-> "chunk", len |-> RecordBytes(hdrs) + delta, hdrs |-> hdrs, whole |-> TRUE]

\* A length prefix that is zero or negative.
BadLength == [kind |-> "badlen", len |-> 0, hdrs |-> <<>>, whole |-> TRUE]

NoChunk == [kind |-> "none", len |-> 0, hdrs |-> <<>>, whole |-> TRUE]

ChunkCatalogue ==
    { Chunk(<<SentinelHeader>>, 0),
      Chunk(<<DataHeader(0, 0)>>, 0),
      Chunk(<<DataHeader(0, 0), DataHeader(MaxFileIdx, 5)>>, 0),
      Chunk(<<DataHeader(0, 1), SentinelHeader>>, 0),
      Chunk(<<BlockHeader(0, -1, 0, 0, PayloadSize)>>, 0),
      Chunk(<<>>, HEADER_SIZE - 1),
      Chunk(<<DataHeader(0, 0)>>, -1),
      BadLength }

\* readHeader at offset o of chunk c, the p-th header of the walk.
readHeader(c, p, o) ==
    IF c.len - o < HEADER_SIZE
    THEN [header |-> DefaultHeader, pos |-> p, off |-> o]
    ELSE [header |-> c.hdrs[p + 1], pos |-> p + 1, off |-> o + HEADER_SIZE]

\* onPendingReads, line 664, mRequestedFiles.insert(fileIdx).second:
\* whether PREFETCH is sent for fileIdx.
insertRequested(requested, fileIdx) == fileIdx \notin requested

\* A bug the prefetch rule excludes: the file stays marked when the send fails.
afterPrefetchKept(requested, fileIdx, ok) == requested \cup {fileIdx}

\* A bug the prefetch rule excludes: the file is unmarked after every send.
afterPrefetchUnmarked(requested, fileIdx, ok) == requested \ {fileIdx}

\* Lines 664-667: mRequestedFiles once sendRequest(PREFETCH) has returned
\* ok; the file was inserted before the send and is erased when it fails.
afterPrefetch(requested, fileIdx, ok) ==
    IF ok THEN requested \cup {fileIdx} ELSE requested \ {fileIdx}

\* Lines 111-127: the command sendRequest writes to the channel.
RequestCommand(requestType, fileIdx, block) ==
    [requestType |-> requestType, fileIdx |-> fileIdx, blockIdx |-> block]

\* No sendRequest call of onPendingReads is in progress.
NoRequest == [requestType |-> -1, fileIdx |-> -1, blockIdx |-> -1]

\* A bug the missing-block rule excludes: the request names block 0.
missingRequestFirstBlock(fileIdx, block) ==
    RequestCommand(BLOCK_MISSING, fileIdx, 0)

\* Line 668: the request made for every entry with a valid file.
missingRequest(fileIdx, block) ==
    RequestCommand(BLOCK_MISSING, fileIdx, block)

\* Line 654: the blocks the filesystem reports pending reads for.
PendingBlocks == 0..MaxBlockIdx

\* The file ids the filesystem reports pending reads for: the streaming
\* files and a file installed from a local path.
PendingFileIds ==
    {convertFileIndexToFileId(DATA_ONLY_STREAMING, i) : i \in FileIdxs}
        \cup {FileId(LOCAL_FILE, <<"a">>)}

(* ------------------------------------------------------------------ *)
(* onPrepareImage                                                       *)
(* ------------------------------------------------------------------ *)

NoFlush == [eof |-> FALSE, count |-> 0, res |-> 0, before |-> 0, after |-> 0]

NoSentinel == [seen |-> FALSE, chunks |-> 0, blocks |-> 0, exits |-> 0]

\* The loader's streaming state after construction; the peer has sent nothing.
StreamVarsInit ==
    /\ mStopReceiving = FALSE
    /\ eventSignalled = FALSE
    /\ mOutFd = FALSE
    /\ mOutFdLock = "none"
    /\ mRequestedFiles = {}
    /\ rpc = "off"
    /\ data = NoChunk
    /\ pos = 0
    /\ off = 0
    /\ instructions = <<>>
    /\ writeFds = {}
    /\ inbox = <<>>
    /\ peerClosed = FALSE
    /\ chunksSent = 0
    /\ writing = {}
    /\ exitSends = 0
    /\ prefetchSends = [f \in FileIdxs |-> 0]
    /\ prefetchOk = [f \in FileIdxs |-> 0]
    /\ blocksWritten = 0
    /\ writeCalls = 0
    /\ chunksRead = 0
    /\ statusReports = 0
    /\ sentinelAt = NoSentinel
    /\ spc = "idle"
    /\ qpc = "idle"
    /\ prCalls = 0
    /\ prIx = 0
    /\ prCur = -1
    /\ prBlock = -1
    /\ lastSend = NoRequest
    /\ missingSends = 0
    /\ validEntries = 0
    /\ stopWhileRunning = FALSE
    /\ headerFault = FALSE

\* verityTreeSizeForFile has not been called.
NotComputed == -1

\* The process before any loader is created: the function-local static of
\* onTraceChanged() (lines 368-371) is not constructed, mReadLogsEnabled is
\* false (line 802).
TraceVarsInit ==
    /\ traceTag = FALSE
    /\ toggles = 0
    /\ cpc = "off"
    /\ oldTrace = FALSE
    /\ newTrace = FALSE
    /\ toNotify = {}
    /\ cCur = 0
    /\ mMutex = "none"
    /\ mCallbacks = {}
    /\ mReadLogsEnabled = [l \in Loaders |-> FALSE]
    /\ lpc = [l \in Loaders |-> "new"]
    /\ setParamsCalls = [l \in Loaders |-> <<>>]

TreeVarsInit ==
    /\ treeFileSize = 0
    /\ treeResult = NotComputed

IdVarsInit ==
    /\ idMode = STDIN
    /\ idFileIdx = 0
    /\ idFileId = kIncFsInvalidFileId
    /\ idBack = 0
    /\ idAgain = kIncFsInvalidFileId
    /\ ipc = 0

PrepareInit ==
    /\ ppc = "start"
    /\ prepResult = "none"
    /\ fileCount = 0
    /\ inputs = <<>>
    /\ inputIx = 0
    /\ streamingFd = FALSE
    /\ streamingMode = STDIN
    /\ buffer = <<>>
    /\ remaining = 0
    /\ totalSize = 0
    /\ blockIdx = 0
    /\ zeroReads = 0
    /\ submitted = <<>>
    /\ lastFlush = NoFlush
    /\ nWriteCalls = 0
    /\ fault = "none"
    /\ missingData = FALSE
    /\ idsigMismatch = FALSE
    /\ nSpecialOps = 0
    /\ handshake = "none"
    /\ firstStreaming = NoMode
    /\ initCalls = 0
    /\ initMode = NoMode
    /\ receiverStarted = FALSE
    /\ StreamVarsInit

Init ==
    /\ PrepareInit
    /\ TraceVarsInit
    /\ TreeVarsInit
    /\ IdVarsInit

\* "return false" out of onPrepareImage.
ReturnFalse ==
    /\ ppc' = "done"
    /\ prepResult' = "false"

\* The locals of copyToIncFs as it is entered for an input of the given size.
EnterCopy(size) ==
    /\ remaining' = size
    /\ totalSize' = 0
    /\ blockIdx' = 0
    /\ zeroReads' = 0
    /\ submitted' = <<>>
    /\ lastFlush' = NoFlush
    /\ nWriteCalls' = 0

\* Lines 418-427: look the shell command up.
LookupShellCommand ==
    /\ UNCHANGED streamVars
    /\ UNCHANGED <<traceVars, treeVars, idVars>>
    /\ ppc = "start"
    /\ \E found \in BOOLEAN :
          IF found
          THEN /\ ppc' = "files"
               /\ UNCHANGED <<prepResult, fault>>
          ELSE /\ ReturnFalse
               /\ fault' = "shellCommand"
    /\ UNCHANGED <<fileCount, inputs, inputIx, streamingFd, streamingMode, buffer,
                   remaining, totalSize, blockIdx, zeroReads, submitted, lastFlush,
                   nWriteCalls, missingData, idsigMismatch, nSpecialOps, handshake, firstStreaming, initCalls, initMode, receiverStarted>>

\* A bug the all-or-nothing rule excludes: the answer of openForSpecialOps
\* is not looked at.
fileVerdictUnchecked(ins, incfsOk) == IF ins = <<>> THEN "abort" ELSE "copy"

\* What onPrepareImage does with the inputs of one file and the answer of
\* openForSpecialOps: return false ("abort") or copy the inputs ("copy").
fileVerdict(ins, incfsOk) ==
    IF ins = <<>> THEN "abort"
    ELSE IF ~incfsOk THEN "abort"
    ELSE "copy"

\* Lines 437-453: take the next file, open its inputs and its IncFS fd.
OpenFile ==
    /\ UNCHANGED streamVars
    /\ UNCHANGED <<traceVars, treeVars, idVars>>
    /\ ppc = "files"
    /\ fileCount < MaxFiles
    /\ \E size \in 0 .. MaxFileSize, mode \in MetadataModes,
          idsigOk \in BOOLEAN, treeDelta \in {0, 1},
          fileOk \in BOOLEAN, stdinOk \in BOOLEAN, incfsOk \in BOOLEAN :
          LET actualTreeSize == verityTreeSizeForFile(size) + treeDelta
              ins == openInputs(size, mode, idsigOk, actualTreeSize, fileOk, stdinOk)
              fileAsked == mode = LOCAL_FILE /\ ~(idsigOk /\ treeDelta # 0)
          IN  /\ missingData' = (missingData \/ (fileAsked /\ ~fileOk))
              /\ idsigMismatch' = (mode = LOCAL_FILE /\ idsigOk /\ treeDelta # 0)
              /\ nSpecialOps' = IF ins = <<>> THEN nSpecialOps ELSE nSpecialOps + 1
              /\ fault' = IF ins = <<>> THEN "openInputs"
                          ELSE IF ~incfsOk THEN "openForSpecialOps"
                          ELSE fault
              /\ fileCount' = fileCount + 1
              /\ IF fileVerdict(ins, incfsOk) = "copy"
                 THEN /\ inputs' = ins
                      /\ inputIx' = 1
                      /\ ppc' = "inputs"
                      /\ UNCHANGED prepResult
                 ELSE /\ ReturnFalse
                      /\ UNCHANGED <<inputs, inputIx>>
    /\ UNCHANGED <<streamingFd, streamingMode, buffer, remaining, totalSize,
                   blockIdx, zeroReads, submitted, lastFlush, nWriteCalls,
                   handshake, firstStreaming, initCalls, initMode, receiverStarted>>

\* Line 437: addedFiles has no further file.
EndOfFiles ==
    /\ UNCHANGED streamVars
    /\ UNCHANGED <<traceVars, treeVars, idVars>>
    /\ ppc = "files"
    /\ ppc' = "afterLoop"
    /\ UNCHANGED <<prepResult, fileCount, inputs, inputIx, streamingFd,
                   streamingMode, buffer, remaining, totalSize, blockIdx,
                   zeroReads, submitted, lastFlush, nWriteCalls, fault,
                   missingData, idsigMismatch, nSpecialOps, handshake, firstStreaming, initCalls, initMode, receiverStarted>>

\* Lines 455-460 and 483-485: take the next input, capture the streaming
\* fd, enter copyToIncFs; after the last input, go on to the next file.
NextInput ==
    /\ UNCHANGED streamVars
    /\ UNCHANGED <<traceVars, treeVars, idVars>>
    /\ ppc = "inputs"
    /\ IF inputIx > Len(inputs)
       THEN /\ ppc' = "files"
            /\ inputs' = <<>>
            /\ inputIx' = 0
            /\ EnterCopy(0)
            /\ UNCHANGED <<streamingFd, streamingMode, firstStreaming>>
       ELSE LET input == inputs[inputIx]
            IN  /\ IF input.streaming /\ ~streamingFd
                   THEN /\ \E dupOk \in BOOLEAN : streamingFd' = dupOk
                        /\ streamingMode' = input.mode
                   ELSE UNCHANGED <<streamingFd, streamingMode>>
                /\ firstStreaming' = IF input.streaming /\ firstStreaming = NoMode
                                     THEN input.mode
                                     ELSE firstStreaming
                /\ EnterCopy(input.size)
                /\ ppc' = "copy"
                /\ UNCHANGED <<inputs, inputIx>>
    /\ UNCHANGED <<prepResult, fileCount, buffer, fault, missingData, idsigMismatch, nSpecialOps, handshake,
                   initCalls, initMode, receiverStarted>>

\* One flashToIncFs call with its writeBlocks result res: the state it
\* leaves and, when it returns false, the return out of copyToIncFs and
\* onPrepareImage.
Flash(eof, res, onSuccess) ==
    LET f == flashToIncFs(buffer, blockIdx, inputs[inputIx].kind, eof)
        count == Len(f.blocks)
    IN  /\ res \in WriteResults(count)
        /\ blockIdx' = f.cursor
        /\ submitted' = submitted \o f.blocks
        /\ buffer' = eraseConsumed(buffer, f.consumed)
        /\ nWriteCalls' = nWriteCalls + 1
        /\ lastFlush' = [eof |-> eof, count |-> count, res |-> res,
                         before |-> Len(buffer),
                         after |-> Len(buffer) - f.consumed]
        /\ fault' = IF res < 0 THEN "copy" ELSE fault
        /\ IF flashSucceeded(res, count)
           THEN /\ ppc' = onSuccess
                /\ UNCHANGED prepResult
           ELSE ReturnFalse

\* Lines 486-494: the buffer has less than one block free: flush, not eof.
CopyFlush ==
    /\ UNCHANGED streamVars
    /\ UNCHANGED <<traceVars, treeVars, idVars>>
    /\ ppc = "copy"
    /\ remaining > 0
    /\ BUFFER_SIZE - Len(buffer) < INCFS_DATA_FILE_BLOCK_SIZE
    /\ \E res \in WriteResults(BLOCKS_COUNT) : Flash(FALSE, res, "copy")
    /\ UNCHANGED <<fileCount, inputs, inputIx, streamingFd, streamingMode,
                   remaining, totalSize, zeroReads, missingData, idsigMismatch, nSpecialOps, handshake, firstStreaming, initCalls, initMode, receiverStarted>>

\* Lines 496-516: one read() into the tail of the buffer.
CopyRead ==
    /\ UNCHANGED streamVars
    /\ UNCHANGED <<traceVars, treeVars, idVars>>
    /\ ppc = "copy"
    /\ remaining > 0
    /\ ~(BUFFER_SIZE - Len(buffer) < INCFS_DATA_FILE_BLOCK_SIZE)
    /\ LET size == Len(buffer)
           toRead == Min(remaining, BUFFER_SIZE - size)
           resized == buffer \o FillBytes(toRead)
       IN  \E read \in ReadResults(toRead) :
              CASE read = 0 ->
                     /\ zeroReads < MaxZeroReads
                     /\ zeroReads' = zeroReads + 1
                     /\ buffer' = resized
                     /\ ppc' = IF inputs[inputIx].waitOnEof THEN "copy" ELSE "copyEnd"
                     /\ UNCHANGED <<remaining, totalSize, prepResult, fault>>
                [] read < 0 ->
                     /\ buffer' = resized
                     /\ ReturnFalse
                     /\ fault' = "copy"
                     /\ UNCHANGED <<remaining, totalSize, zeroReads>>
                [] OTHER ->
                     /\ buffer' = buffer \o SourceBytes(totalSize, read)
                     /\ remaining' = remaining - read
                     /\ totalSize' = totalSize + read
                     /\ UNCHANGED <<ppc, zeroReads, prepResult, fault>>
    /\ UNCHANGED <<fileCount, inputs, inputIx, streamingFd, streamingMode,
                   blockIdx, submitted, lastFlush, nWriteCalls, missingData, idsigMismatch, nSpecialOps, handshake, firstStreaming,
                   initCalls, initMode, receiverStarted>>

\* Line 486: the loop of copyToIncFs ends with remaining <= 0.
CopyLoopEnd ==
    /\ UNCHANGED streamVars
    /\ UNCHANGED <<traceVars, treeVars, idVars>>
    /\ ppc = "copy"
    /\ ~(remaining > 0)
    /\ ppc' = "copyEnd"
    /\ UNCHANGED <<prepResult, fileCount, inputs, inputIx, streamingFd,
                   streamingMode, buffer, remaining, totalSize, blockIdx,
                   zeroReads, submitted, lastFlush, nWriteCalls, fault,
                   missingData, idsigMismatch, nSpecialOps, handshake, firstStreaming, initCalls, initMode, receiverStarted>>

\* Lines 518-521: the flush at eof, then back to the loop over the inputs.
CopyEnd ==
    /\ UNCHANGED streamVars
    /\ UNCHANGED <<traceVars, treeVars, idVars>>
    /\ ppc = "copyEnd"
    /\ IF buffer # <<>>
       THEN \E res \in WriteResults(BLOCKS_COUNT + 1) : Flash(TRUE, res, "inputs")
       ELSE /\ ppc' = "inputs"
            /\ UNCHANGED <<prepResult, fault, buffer, blockIdx, submitted,
                           lastFlush, nWriteCalls>>
    /\ inputIx' = IF ppc' = "inputs" THEN inputIx + 1 ELSE inputIx
    /\ UNCHANGED <<fileCount, inputs, streamingFd, streamingMode, remaining,
                   totalSize, zeroReads, missingData, idsigMismatch, nSpecialOps, handshake, firstStreaming, initCalls, initMode, receiverStarted>>

\* Lines 471-477 without a streaming fd: onPrepareImage returns true.
PrepareDone ==
    /\ UNCHANGED streamVars
    /\ UNCHANGED <<traceVars, treeVars, idVars>>
    /\ ppc = "afterLoop"
    /\ ~streamingFd
    /\ ppc' = "done"
    /\ prepResult' = "true"
    /\ UNCHANGED <<fileCount, inputs, inputIx, streamingFd, streamingMode,
                   buffer, remaining, totalSize, blockIdx, zeroReads, submitted,
                   lastFlush, nWriteCalls, fault, missingData, idsigMismatch, nSpecialOps, handshake, firstStreaming, initCalls, initMode, receiverStarted>>

(* ------------------------------------------------------------------ *)
(* initStreaming                                                        *)
(* ------------------------------------------------------------------ *)

\* An initStreaming that takes any four bytes for the handshake.
handshakeAnyFourBytes(hs) == hs # "short"

\* Lines 620-629: the four bytes read from the channel are accepted.
handshakeAccepted(hs) == hs = "OKAY"

\* Lines 471-474 and 612-643: onPrepareImage ends in initStreaming.
InitStreaming ==
    /\ ppc = "afterLoop"
    /\ streamingFd
    /\ ppc' = "done"
    /\ initCalls' = initCalls + 1
    /\ initMode' = streamingMode
    /\ UNCHANGED firstStreaming
    /\ \E eventOk \in BOOLEAN, hs \in {"OKAY", "NOPE", "short"}, dupOk \in BOOLEAN :
          /\ handshake' = IF eventOk THEN hs ELSE "none"
          /\ IF eventOk /\ handshakeAccepted(hs)
             THEN /\ mOutFd' = dupOk
                  /\ rpc' = "loop"
                  /\ receiverStarted' = TRUE
                  /\ prepResult' = "true"
                  /\ UNCHANGED fault
             ELSE /\ prepResult' = "false"
                  /\ fault' = "initStreaming"
                  /\ UNCHANGED <<mOutFd, rpc, receiverStarted>>
    /\ UNCHANGED <<fileCount, inputs, inputIx, streamingFd, streamingMode,
                   buffer, remaining, totalSize, blockIdx, zeroReads, submitted,
                   lastFlush, nWriteCalls, missingData, idsigMismatch, nSpecialOps>>
    /\ UNCHANGED <<mStopReceiving, eventSignalled, mOutFdLock, mRequestedFiles,
                   data, pos, off, instructions, writeFds, inbox, peerClosed,
                   chunksSent, writing, exitSends, prefetchSends, prefetchOk,
                   blocksWritten, writeCalls, chunksRead, statusReports,
                   sentinelAt, spc, qpc, prCalls, prIx, prCur>>
    /\ UNCHANGED sendVars
    /\ UNCHANGED <<traceVars, treeVars, idVars>>
    /\ UNCHANGED stopVars

Next ==
    \/ LookupShellCommand
    \/ OpenFile
    \/ EndOfFiles
    \/ NextInput
    \/ CopyFlush
    \/ CopyRead
    \/ CopyLoopEnd
    \/ CopyEnd
    \/ PrepareDone
    \/ InitStreaming

Spec == Init /\ [][Next]_vars

(* ------------------------------------------------------------------ *)
(* The streaming session                                                *)
(* ------------------------------------------------------------------ *)

\* The process has not been aborted.
Alive == rpc # "crashed"

\* The receiver enters sendRequest(inout, EXIT): lines 688 and 704.
BeginExit ==
    /\ writing' = writing \cup {"receiver"}
    /\ exitSends' = exitSends + 1

\* waitForDataOrSignal, lines 129-145: "error" (res < 0), "timeout"
\* (res == 0), "event" (res == event_fd) or "data" (res == fd).
waitForDataOrSignal(pollFailed, eventReady, dataReady) ==
    IF pollFailed THEN "error"
    ELSE IF ~eventReady /\ ~dataReady THEN "timeout"
    ELSE IF eventReady THEN "event"
    ELSE "data"

\* Lines 676-690: the loop condition, then poll and what the receiver does
\* with its result.
R_Poll ==
    /\ rpc = "loop"
    /\ \E pollFailed \in BOOLEAN :
          LET res == IF mStopReceiving THEN "stopped"
                     ELSE waitForDataOrSignal(pollFailed, eventSignalled,
                                              inbox # <<>> \/ peerClosed)
          IN  /\ rpc' = CASE res \in {"stopped", "error"} -> "drain"
                          [] res = "timeout" -> "loop"
                          [] res = "event" -> "exitSignal"
                          [] OTHER -> "readChunk"
              /\ statusReports' = IF res = "error" THEN statusReports + 1
                                  ELSE statusReports
              /\ IF res = "event"
                 THEN BeginExit
                 ELSE UNCHANGED <<writing, exitSends>>
    /\ UNCHANGED prepVars
    /\ UNCHANGED <<traceVars, treeVars, idVars>>
    /\ UNCHANGED stopVars
    /\ UNCHANGED sendVars
    /\ UNCHANGED <<mStopReceiving, eventSignalled, mOutFd, mOutFdLock,
                   mRequestedFiles, data, pos, off, instructions, writeFds,
                   inbox, peerClosed, chunksSent, prefetchSends, prefetchOk,
                   blocksWritten, writeCalls, chunksRead, sentinelAt,
                   spc, qpc, prCalls, prIx, prCur>>

\* A bug the sentinel rule excludes: the flag is left as it was.
mStopReceivingLeft(at, stop) == stop

\* Lines 689 and 705: mStopReceiving after sendRequest(inout, EXIT), which is
\* set after the sentinel and left alone after the stop signal.
mStopReceivingAfterExit(at, stop) == IF at = "exitSentinel" THEN TRUE ELSE stop

\* sendRequest(inout, EXIT) returns; lines 689-690 and 705-706.
R_ExitDone ==
    /\ rpc \in {"exitSignal", "exitSentinel"}
    /\ writing' = writing \ {"receiver"}
    /\ mStopReceiving' = mStopReceivingAfterExit(rpc, mStopReceiving)
    /\ rpc' = IF rpc = "exitSentinel" THEN "write" ELSE "drain"
    /\ UNCHANGED prepVars
    /\ UNCHANGED <<traceVars, treeVars, idVars>>
    /\ UNCHANGED stopVars
    /\ UNCHANGED sendVars
    /\ UNCHANGED <<eventSignalled, mOutFd, mOutFdLock, mRequestedFiles, data,
                   pos, off, instructions, writeFds, inbox, peerClosed,
                   chunksSent, exitSends, prefetchSends, prefetchOk,
                   blocksWritten, writeCalls, chunksRead, statusReports,
                   sentinelAt, spc, qpc, prCalls, prIx, prCur>>

\* readChunk, lines 147-158, on the head of the channel: "blocked" while
\* the bytes of the chunk are not all there and the peer may still send.
readChunk(channel, closed) ==
    IF channel = <<>> THEN (IF closed THEN "fail" ELSE "blocked")
    ELSE IF ~Head(channel).whole THEN (IF closed THEN "fail" ELSE "blocked")
    ELSE IF Head(channel).kind = "badlen" THEN "fail"
    ELSE "chunk"

\* Lines 691-696.
R_ReadChunk ==
    /\ rpc = "readChunk"
    /\ LET res == readChunk(inbox, peerClosed)
       IN  /\ res # "blocked"
           /\ inbox' = IF inbox = <<>> THEN inbox ELSE Tail(inbox)
           /\ IF res = "chunk"
              THEN /\ data' = Head(inbox)
                   /\ pos' = 0
                   /\ off' = 0
                   /\ chunksRead' = chunksRead + 1
                   /\ rpc' = "walk"
                   /\ UNCHANGED statusReports
              ELSE /\ statusReports' = statusReports + 1
                   /\ rpc' = "drain"
                   /\ UNCHANGED <<data, pos, off, chunksRead>>
    /\ UNCHANGED prepVars
    /\ UNCHANGED <<traceVars, treeVars, idVars>>
    /\ UNCHANGED stopVars
    /\ UNCHANGED sendVars
    /\ UNCHANGED <<mStopReceiving, eventSignalled, mOutFd, mOutFdLock,
                   mRequestedFiles, instructions, writeFds, peerClosed,
                   chunksSent, writing, exitSends, prefetchSends, prefetchOk,
                   blocksWritten, writeCalls, sentinelAt, spc, qpc,
                   prCalls, prIx, prCur>>

\* The instruction of lines 733-740 for header h whose payload starts at o.
Instruction(h, o) ==
    [fileFd |-> h.fileIdx, pageIndex |-> h.blockIdx,
     compression |-> h.compressionType, kind |-> h.blockType,
     dataSize |-> h.blockSize % 65536, chunk |-> chunksRead, offset |-> o]

\* Lines 697-743: one turn of the walk over the chunk.
R_Walk ==
    /\ rpc = "walk"
    /\ IF data.len - off <= 0
       THEN /\ rpc' = "write"
            /\ UNCHANGED <<pos, off, instructions, writeFds, mStopReceiving,
                           writing, exitSends, sentinelAt, headerFault>>
       ELSE LET r == readHeader(data, pos, off)
                h == r.header
            IN  /\ pos' = r.pos
                /\ IF isSentinel(h)
                   THEN /\ BeginExit
                        /\ rpc' = "exitSentinel"
                        /\ off' = r.off
                        /\ sentinelAt' = IF pos = 0
                                         THEN [seen |-> TRUE, chunks |-> chunksRead,
                                               blocks |-> blocksWritten,
                                               exits |-> exitSends]
                                         ELSE sentinelAt
                        /\ UNCHANGED <<instructions, writeFds, mStopReceiving,
                                       headerFault>>
                   ELSE IF isInvalidHeader(h)
                   THEN /\ mStopReceiving' = TRUE
                        /\ headerFault' = TRUE
                        /\ rpc' = "write"
                        /\ off' = r.off
                        /\ UNCHANGED <<instructions, writeFds, writing,
                                       exitSends, sentinelAt>>
                   ELSE IF ~isValidFileId(convertFileIndexToFileId(streamingMode, h.fileIdx))
                   THEN /\ off' = r.off
                        /\ UNCHANGED <<rpc, instructions, writeFds,
                                       mStopReceiving, writing, exitSends,
                                       sentinelAt, headerFault>>
                   ELSE \E openOk \in BOOLEAN :
                          IF h.fileIdx \notin writeFds /\ ~openOk
                          THEN /\ rpc' = "write"
                               /\ off' = r.off
                               /\ UNCHANGED <<instructions, writeFds,
                                              mStopReceiving, writing,
                                              exitSends, sentinelAt,
                                              headerFault>>
                          ELSE /\ writeFds' = writeFds \cup {h.fileIdx}
                               /\ instructions' = Append(instructions, Instruction(h, r.off))
                               /\ off' = r.off + h.blockSize
                               /\ IF h.blockSize <= data.len - r.off
                                  THEN UNCHANGED <<rpc, mStopReceiving, writing,
                                                   exitSends, sentinelAt,
                                                   headerFault>>
                                  ELSE \* subspan past the end of the chunk is
                                       \* undefined: the process is aborted, or
                                       \* the walk goes on over foreign memory
                                       \* and ends at what it decodes there.
                                       /\ UNCHANGED sentinelAt
                                       /\ headerFault' = TRUE
                                       /\ \E outcome \in {"abort", "sentinel", "invalid"} :
                                             CASE outcome = "abort" ->
                                                    /\ rpc' = "crashed"
                                                    /\ UNCHANGED <<mStopReceiving,
                                                                   writing, exitSends>>
                                               [] outcome = "sentinel" ->
                                                    /\ BeginExit
                                                    /\ rpc' = "exitSentinel"
                                                    /\ UNCHANGED mStopReceiving
                                               [] OTHER ->
                                                    /\ mStopReceiving' = TRUE
                                                    /\ rpc' = "write"
                                                    /\ UNCHANGED <<writing, exitSends>>
    /\ UNCHANGED prepVars
    /\ UNCHANGED <<traceVars, treeVars, idVars>>
    /\ UNCHANGED stopWhileRunning
    /\ UNCHANGED sendVars
    /\ UNCHANGED <<eventSignalled, mOutFd, mOutFdLock, mRequestedFiles, data,
                   inbox, peerClosed, chunksSent, prefetchSends, prefetchOk,
                   blocksWritten, writeCalls, chunksRead, statusReports,
                   spc, qpc, prCalls, prIx, prCur>>

\* A bug the batching rule excludes: the written instructions stay pending.
instructionsKept(pending) == pending

\* Line 760, instructions.clear(): the instructions pending afterwards.
clearInstructions(pending) == <<>>

\* writeInstructions, lines 754-761: the blocks submitted once the single
\* writeBlocks call of line 755 is made with all the pending instructions.
writeInstructions(written, pending) == written + Len(pending)

\* Line 744: the instructions of the chunk are written, back to the loop;
\* the chunk is not read again before readChunk overwrites it.
R_Write ==
    /\ rpc = "write"
    /\ blocksWritten' = writeInstructions(blocksWritten, instructions)
    /\ writeCalls' = writeCalls + 1
    /\ instructions' = clearInstructions(instructions)
    /\ data' = NoChunk
    /\ pos' = 0
    /\ off' = 0
    /\ rpc' = "loop"
    /\ UNCHANGED prepVars
    /\ UNCHANGED <<traceVars, treeVars, idVars>>
    /\ UNCHANGED stopVars
    /\ UNCHANGED sendVars
    /\ UNCHANGED <<mStopReceiving, eventSignalled, mOutFd, mOutFdLock,
                   mRequestedFiles, writeFds, inbox,
                   peerClosed, chunksSent, writing, exitSends, prefetchSends,
                   prefetchOk, chunksRead,
                   statusReports, sentinelAt, spc, qpc, prCalls, prIx, prCur>>

\* A bug the stop rule excludes: the receiver leaves mOutFd open.
outFdKept(open) == open

\* Line 750, mOutFd.reset(): the value of mOutFd >= 0 afterwards.
resetOutFd(open) == FALSE

\* Lines 746-751: after the loop the pending instructions are written once
\* more, mOutFd is reset under mOutFdLock, and the thread ends.
R_Exit ==
    /\ rpc = "drain"
    /\ mOutFdLock = "none"
    /\ blocksWritten' = writeInstructions(blocksWritten, instructions)
    /\ writeCalls' = writeCalls + 1
    /\ instructions' = clearInstructions(instructions)
    /\ mOutFd' = resetOutFd(mOutFd)
    /\ rpc' = "done"
    /\ UNCHANGED prepVars
    /\ UNCHANGED <<traceVars, treeVars, idVars>>
    /\ UNCHANGED stopVars
    /\ UNCHANGED sendVars
    /\ UNCHANGED <<mStopReceiving, eventSignalled, mOutFdLock, mRequestedFiles,
                   data, pos, off, writeFds, inbox, peerClosed, chunksSent,
                   writing, exitSends, prefetchSends, prefetchOk, chunksRead, statusReports, sentinelAt, spc, qpc, prCalls,
                   prIx, prCur>>

(* ---------------- onPendingReads ---------------- *)

\* Lines 647-650: take mOutFdLock; return at once when mOutFd < 0.
Q_Enter ==
    /\ Alive
    /\ qpc = "idle"
    /\ prCalls < MaxPendingCalls
    /\ mOutFdLock = "none"
    /\ prCalls' = prCalls + 1
    /\ IF mOutFd
       THEN /\ mOutFdLock' = "pendingReads"
            /\ qpc' = "entries"
       ELSE UNCHANGED <<mOutFdLock, qpc>>
    /\ UNCHANGED prepVars
    /\ UNCHANGED <<traceVars, treeVars, idVars>>
    /\ UNCHANGED stopVars
    /\ UNCHANGED sendVars
    /\ UNCHANGED <<mStopReceiving, eventSignalled, mOutFd, mRequestedFiles,
                   rpc, data, pos, off, instructions, writeFds, inbox,
                   peerClosed, chunksSent, writing, exitSends, prefetchSends,
                   prefetchOk, blocksWritten, writeCalls, chunksRead,
                   statusReports, sentinelAt, spc, prIx, prCur>>

\* Lines 652-665: the next entry of pendingReads, up to the first
\* sendRequest call made for it.
Q_Entry ==
    /\ Alive
    /\ qpc = "entries"
    /\ prIx < MaxPendingReads
    /\ prIx' = prIx + 1
    /\ \E fileId \in PendingFileIds :
          LET fileIdx == convertFileIdToFileIndex(fileId)
          IN  IF fileIdx < 0
              THEN UNCHANGED <<qpc, prCur, mRequestedFiles, writing,
                               prefetchSends, sendVars>>
              ELSE \E block \in PendingBlocks :
                   /\ prCur' = fileIdx
                   /\ prBlock' = block
                   /\ validEntries' = validEntries + 1
                   /\ writing' = writing \cup {"pendingReads"}
                   /\ IF insertRequested(mRequestedFiles, fileIdx)
                      THEN /\ mRequestedFiles' = mRequestedFiles \cup {fileIdx}
                           /\ prefetchSends' = [prefetchSends EXCEPT ![fileIdx] = @ + 1]
                           /\ lastSend' = RequestCommand(PREFETCH, fileIdx, block)
                           /\ qpc' = "prefetch"
                           /\ UNCHANGED missingSends
                      ELSE /\ lastSend' = missingRequest(fileIdx, block)
                           /\ missingSends' = missingSends + 1
                           /\ qpc' = "missing"
                           /\ UNCHANGED <<mRequestedFiles, prefetchSends>>
    /\ UNCHANGED prepVars
    /\ UNCHANGED <<traceVars, treeVars, idVars>>
    /\ UNCHANGED stopVars
    /\ UNCHANGED <<mStopReceiving, eventSignalled, mOutFd, mOutFdLock, rpc,
                   data, pos, off, instructions, writeFds, inbox, peerClosed,
                   chunksSent, exitSends, prefetchOk, blocksWritten, writeCalls,
                   chunksRead, statusReports, sentinelAt, spc, prCalls>>

\* Lines 665-668: sendRequest(PREFETCH) returns; sendRequest(BLOCK_MISSING)
\* is called.
Q_PrefetchDone ==
    /\ Alive
    /\ qpc = "prefetch"
    /\ \E ok \in BOOLEAN :
          /\ prefetchOk' = [prefetchOk EXCEPT ![prCur] =
                               IF ok THEN @ + 1 ELSE @]
          /\ mRequestedFiles' = afterPrefetch(mRequestedFiles, prCur, ok)
    /\ lastSend' = missingRequest(prCur, prBlock)
    /\ missingSends' = missingSends + 1
    /\ qpc' = "missing"
    /\ UNCHANGED prepVars
    /\ UNCHANGED <<traceVars, treeVars, idVars>>
    /\ UNCHANGED stopVars
    /\ UNCHANGED <<mStopReceiving, eventSignalled, mOutFd, mOutFdLock, rpc,
                   data, pos, off, instructions, writeFds, inbox, peerClosed,
                   chunksSent, writing, exitSends, prefetchSends, blocksWritten, writeCalls,
                   chunksRead, statusReports, sentinelAt, spc, prCalls, prIx,
                   prCur, prBlock, validEntries>>

\* Line 668: sendRequest(BLOCK_MISSING) returns; on to the next entry.
Q_MissingDone ==
    /\ Alive
    /\ qpc = "missing"
    /\ writing' = writing \ {"pendingReads"}
    /\ prCur' = -1
    /\ prBlock' = -1
    /\ lastSend' = NoRequest
    /\ qpc' = "entries"
    /\ UNCHANGED <<missingSends, validEntries>>
    /\ UNCHANGED prepVars
    /\ UNCHANGED <<traceVars, treeVars, idVars>>
    /\ UNCHANGED stopVars
    /\ UNCHANGED <<mStopReceiving, eventSignalled, mOutFd, mOutFdLock,
                   mRequestedFiles, rpc, data, pos, off, instructions,
                   writeFds, inbox, peerClosed, chunksSent, exitSends,
                   prefetchSends, prefetchOk, blocksWritten, writeCalls,
                   chunksRead, statusReports, sentinelAt, spc, prCalls, prIx>>

\* Line 670: pendingReads is exhausted; the lock_guard releases mOutFdLock.
Q_Return ==
    /\ Alive
    /\ qpc = "entries"
    /\ mOutFdLock' = "none"
    /\ qpc' = "idle"
    /\ prIx' = 0
    /\ UNCHANGED prepVars
    /\ UNCHANGED <<traceVars, treeVars, idVars>>
    /\ UNCHANGED stopVars
    /\ UNCHANGED sendVars
    /\ UNCHANGED <<mStopReceiving, eventSignalled, mOutFd, mRequestedFiles,
                   rpc, data, pos, off, instructions, writeFds, inbox,
                   peerClosed, chunksSent, writing, exitSends, prefetchSends,
                   prefetchOk, blocksWritten, writeCalls, chunksRead,
                   statusReports, sentinelAt, spc, prCalls, prCur>>

(* ---------------- onStop ---------------- *)

\* Line 402, called once onPrepareImage has returned.
S_SetStop ==
    /\ Alive
    /\ spc = "idle"
    /\ prepResult # "none"
    /\ mStopReceiving' = TRUE
    /\ stopWhileRunning' = (/\ receiverStarted
                            /\ rpc \in {"loop", "readChunk", "walk", "write"}
                            /\ ~mStopReceiving
                            /\ statusReports = 0)
    /\ UNCHANGED headerFault
    /\ spc' = "signal"
    /\ UNCHANGED prepVars
    /\ UNCHANGED <<traceVars, treeVars, idVars>>
    /\ UNCHANGED sendVars
    /\ UNCHANGED <<eventSignalled, mOutFd, mOutFdLock, mRequestedFiles, rpc,
                   data, pos, off, instructions, writeFds, inbox, peerClosed,
                   chunksSent, writing, exitSends, prefetchSends, prefetchOk,
                   blocksWritten, writeCalls, chunksRead, statusReports,
                   sentinelAt, qpc, prCalls, prIx, prCur>>

\* Line 403: eventfd_write(mEventFd, 1).
S_Signal ==
    /\ Alive
    /\ spc = "signal"
    /\ eventSignalled' = TRUE
    /\ spc' = "join"
    /\ UNCHANGED prepVars
    /\ UNCHANGED <<traceVars, treeVars, idVars>>
    /\ UNCHANGED stopVars
    /\ UNCHANGED sendVars
    /\ UNCHANGED <<mStopReceiving, mOutFd, mOutFdLock, mRequestedFiles, rpc,
                   data, pos, off, instructions, writeFds, inbox, peerClosed,
                   chunksSent, writing, exitSends, prefetchSends, prefetchOk,
                   blocksWritten, writeCalls, chunksRead, statusReports,
                   sentinelAt, qpc, prCalls, prIx, prCur>>

\* Lines 404-406: whether onStop may go past the join.
joinReturns(started, receiver) == ~started \/ receiver = "done"

\* Lines 404-407: join the receiver if it was started; onStop returns.
S_Join ==
    /\ Alive
    /\ spc = "join"
    /\ joinReturns(receiverStarted, rpc)
    /\ spc' = "returned"
    /\ UNCHANGED prepVars
    /\ UNCHANGED <<traceVars, treeVars, idVars>>
    /\ UNCHANGED stopVars
    /\ UNCHANGED sendVars
    /\ UNCHANGED <<mStopReceiving, eventSignalled, mOutFd, mOutFdLock,
                   mRequestedFiles, rpc, data, pos, off, instructions,
                   writeFds, inbox, peerClosed, chunksSent, writing, exitSends,
                   prefetchSends, prefetchOk, blocksWritten, writeCalls,
                   chunksRead, statusReports, sentinelAt, qpc, prCalls, prIx,
                   prCur>>

(* ---------------- the peer ---------------- *)

\* The peer puts a chunk on the channel, all of it or only its first bytes.
PeerSend ==
    /\ receiverStarted
    /\ ~peerClosed
    /\ chunksSent < MaxChunks
    /\ Len(inbox) < MaxInbox
    /\ IF inbox = <<>> THEN TRUE ELSE inbox[Len(inbox)].whole
    /\ chunksSent' = chunksSent + 1
    /\ \E c \in ChunkCatalogue, whole \in BOOLEAN :
          inbox' = Append(inbox, [c EXCEPT !.whole = whole])
    /\ UNCHANGED prepVars
    /\ UNCHANGED <<traceVars, treeVars, idVars>>
    /\ UNCHANGED stopVars
    /\ UNCHANGED sendVars
    /\ UNCHANGED <<mStopReceiving, eventSignalled, mOutFd, mOutFdLock,
                   mRequestedFiles, rpc, data, pos, off, instructions,
                   writeFds, peerClosed, writing, exitSends, prefetchSends,
                   prefetchOk, blocksWritten, writeCalls, chunksRead,
                   statusReports, sentinelAt, spc, qpc, prCalls, prIx, prCur>>

\* The peer sends the rest of the chunk it had begun.
PeerComplete ==
    /\ ~peerClosed
    /\ IF inbox = <<>> THEN FALSE ELSE ~inbox[Len(inbox)].whole
    /\ inbox' = [inbox EXCEPT ![Len(inbox)].whole = TRUE]
    /\ UNCHANGED prepVars
    /\ UNCHANGED <<traceVars, treeVars, idVars>>
    /\ UNCHANGED stopVars
    /\ UNCHANGED sendVars
    /\ UNCHANGED <<mStopReceiving, eventSignalled, mOutFd, mOutFdLock,
                   mRequestedFiles, rpc, data, pos, off, instructions,
                   writeFds, peerClosed, chunksSent, writing, exitSends,
                   prefetchSends, prefetchOk, blocksWritten, writeCalls,
                   chunksRead, statusReports, sentinelAt, spc, qpc, prCalls,
                   prIx, prCur>>

\* The peer closes the channel.
PeerClose ==
    /\ receiverStarted
    /\ ~peerClosed
    /\ peerClosed' = TRUE
    /\ UNCHANGED prepVars
    /\ UNCHANGED <<traceVars, treeVars, idVars>>
    /\ UNCHANGED stopVars
    /\ UNCHANGED sendVars
    /\ UNCHANGED <<mStopReceiving, eventSignalled, mOutFd, mOutFdLock,
                   mRequestedFiles, rpc, data, pos, off, instructions,
                   writeFds, inbox, chunksSent, writing, exitSends,
                   prefetchSends, prefetchOk, blocksWritten, writeCalls,
                   chunksRead, statusReports, sentinelAt, spc, qpc, prCalls,
                   prIx, prCur>>

\* onPrepareImage has copied the inputs of one streaming file (nothing to
\* copy for it) and is about to call initStreaming.
StreamInit ==
    /\ ppc = "afterLoop"
    /\ prepResult = "none"
    /\ fileCount = 1
    /\ inputs = <<>>
    /\ inputIx = 0
    /\ streamingFd = TRUE
    /\ streamingMode = STREAMING
    /\ buffer = <<>>
    /\ remaining = 0
    /\ totalSize = 0
    /\ blockIdx = 0
    /\ zeroReads = 0
    /\ submitted = <<>>
    /\ lastFlush = NoFlush
    /\ nWriteCalls = 0
    /\ fault = "none"
    /\ missingData = FALSE
    /\ idsigMismatch = FALSE
    /\ nSpecialOps = 1
    /\ handshake = "none"
    /\ firstStreaming = STREAMING
    /\ initCalls = 0
    /\ initMode = NoMode
    /\ receiverStarted = FALSE
    /\ StreamVarsInit
    /\ TraceVarsInit
    /\ TreeVarsInit
    /\ IdVarsInit

StreamNext ==
    \/ InitStreaming
    \/ R_Poll
    \/ R_ExitDone
    \/ R_ReadChunk
    \/ R_Walk
    \/ R_Write
    \/ R_Exit
    \/ Q_Enter
    \/ Q_Entry
    \/ Q_PrefetchDone
    \/ Q_MissingDone
    \/ Q_Return
    \/ S_SetStop
    \/ S_Signal
    \/ S_Join
    \/ PeerSend
    \/ PeerComplete
    \/ PeerClose

StreamSpec == StreamInit /\ [][StreamNext]_vars

\* The threads of the loader are scheduled: a step of the receiver, of
\* onPendingReads or of onStop that can be taken is taken. Nothing is
\* assumed of the peer, nor of the filesystem calling onPendingReads.
LoaderFairness ==
    /\ WF_vars(R_Poll)
    /\ WF_vars(R_ExitDone)
    /\ WF_vars(R_ReadChunk)
    /\ WF_vars(R_Walk)
    /\ WF_vars(R_Write)
    /\ WF_vars(R_Exit)
    /\ WF_vars(Q_Entry)
    /\ WF_vars(Q_PrefetchDone)
    /\ WF_vars(Q_MissingDone)
    /\ WF_vars(Q_Return)
    /\ WF_vars(S_Signal)
    /\ WF_vars(S_Join)

StreamFairSpec == StreamInit /\ [][StreamNext]_vars /\ LoaderFairness

(* ------------------------------------------------------------------ *)
(* The trace-tag watcher and updateReadLogsState                        *)
(* ------------------------------------------------------------------ *)

\* A bug the read-logs rule excludes: setParams is called on every update.
readLogsAlways(enabled, previous) == TRUE

\* Line 379: enabled != mReadLogsEnabled.exchange(enabled).
readLogsChanged(enabled, previous) == enabled # previous

\* The environment switches the trace tag.
Toggle ==
    /\ toggles < MaxToggles
    /\ toggles' = toggles + 1
    /\ traceTag' = ~traceTag
    /\ UNCHANGED <<cpc, oldTrace, newTrace, toNotify, cCur, mMutex, mCallbacks,
                   mReadLogsEnabled, lpc, setParamsCalls>>
    /\ UNCHANGED <<prepVars, streamVars, treeVars, idVars>>

\* onCreate, line 395, up to the exchange of line 379.
L_Exchange(l) ==
    /\ lpc[l] = "new"
    /\ mReadLogsEnabled' = [mReadLogsEnabled EXCEPT ![l] = traceTag]
    /\ lpc' = [lpc EXCEPT ![l] =
                  IF readLogsChanged(traceTag, mReadLogsEnabled[l])
                  THEN IF traceTag THEN "setParamsTrue" ELSE "setParamsFalse"
                  ELSE "register"]
    /\ UNCHANGED <<traceTag, toggles, cpc, oldTrace, newTrace, toNotify, cCur,
                   mMutex, mCallbacks, setParamsCalls>>
    /\ UNCHANGED <<prepVars, streamVars, treeVars, idVars>>

\* onCreate, line 380: setParams with the value updateReadLogsState was given.
L_SetParams(l) ==
    /\ lpc[l] \in {"setParamsTrue", "setParamsFalse"}
    /\ setParamsCalls' = [setParamsCalls EXCEPT ![l] =
                             Append(@, lpc[l] = "setParamsTrue")]
    /\ lpc' = [lpc EXCEPT ![l] = "register"]
    /\ UNCHANGED <<traceTag, toggles, cpc, oldTrace, newTrace, toNotify, cCur,
                   mMutex, mCallbacks, mReadLogsEnabled>>
    /\ UNCHANGED <<prepVars, streamVars, treeVars, idVars>>

\* onCreate, line 396: the first onTraceChanged() constructs the watcher,
\* whose constructor starts mChecker (lines 807-808); registerCallback then
\* inserts the loader under mMutex (lines 351-354).
L_Register(l) ==
    /\ lpc[l] = "register"
    /\ mMutex = "none"
    /\ mCallbacks' = mCallbacks \cup {l}
    /\ cpc' = IF cpc = "off" THEN "init" ELSE cpc
    /\ lpc' = [lpc EXCEPT ![l] = "created"]
    /\ UNCHANGED <<traceTag, toggles, oldTrace, newTrace, toNotify, cCur,
                   mMutex, mReadLogsEnabled, setParamsCalls>>
    /\ UNCHANGED <<prepVars, streamVars, treeVars, idVars>>

\* mChecker, line 809: oldTrace is sampled as the thread starts.
C_Init ==
    /\ cpc = "init"
    /\ oldTrace' = traceTag
    /\ cpc' = "loop"
    /\ UNCHANGED <<traceTag, toggles, newTrace, toNotify, cCur, mMutex,
                   mCallbacks, mReadLogsEnabled, lpc, setParamsCalls>>
    /\ UNCHANGED <<prepVars, streamVars, treeVars, idVars>>

\* mChecker, lines 810-812 and 818-819: newTrace is sampled; without a
\* change the turn ends here.
C_Sample ==
    /\ cpc = "loop"
    /\ newTrace' = traceTag
    /\ IF oldTrace # traceTag
       THEN /\ cpc' = "lock"
            /\ UNCHANGED oldTrace
       ELSE /\ oldTrace' = traceTag
            /\ UNCHANGED cpc
    /\ UNCHANGED <<traceTag, toggles, toNotify, cCur, mMutex, mCallbacks,
                   mReadLogsEnabled, lpc, setParamsCalls>>
    /\ UNCHANGED <<prepVars, streamVars, treeVars, idVars>>

\* mChecker, lines 813-814: mMutex is taken and the for loop begins.
C_Lock ==
    /\ cpc = "lock"
    /\ mMutex = "none"
    /\ mMutex' = "checker"
    /\ toNotify' = mCallbacks
    /\ cpc' = "notify"
    /\ UNCHANGED <<traceTag, toggles, oldTrace, newTrace, cCur, mCallbacks,
                   mReadLogsEnabled, lpc, setParamsCalls>>
    /\ UNCHANGED <<prepVars, streamVars, treeVars, idVars>>

\* mChecker, line 815 up to the exchange of line 379, for the next callback
\* of the unordered set.
C_Exchange ==
    /\ cpc = "notify"
    /\ \E l \in toNotify :
          /\ mReadLogsEnabled' = [mReadLogsEnabled EXCEPT ![l] = newTrace]
          /\ IF readLogsChanged(newTrace, mReadLogsEnabled[l])
             THEN /\ cCur' = l
                  /\ cpc' = "setParams"
                  /\ UNCHANGED toNotify
             ELSE /\ toNotify' = toNotify \ {l}
                  /\ UNCHANGED <<cCur, cpc>>
    /\ UNCHANGED <<traceTag, toggles, oldTrace, newTrace, mMutex, mCallbacks,
                   lpc, setParamsCalls>>
    /\ UNCHANGED <<prepVars, streamVars, treeVars, idVars>>

\* mChecker, line 380: setParams for the callback whose value changed.
C_SetParams ==
    /\ cpc = "setParams"
    /\ setParamsCalls' = [setParamsCalls EXCEPT ![cCur] = Append(@, newTrace)]
    /\ toNotify' = toNotify \ {cCur}
    /\ cCur' = 0
    /\ cpc' = "notify"
    /\ UNCHANGED <<traceTag, toggles, oldTrace, newTrace, mMutex, mCallbacks,
                   mReadLogsEnabled, lpc>>
    /\ UNCHANGED <<prepVars, streamVars, treeVars, idVars>>

\* mChecker, lines 817-819: the for loop is over, mMutex is released and
\* oldTrace takes newTrace.
C_Unlock ==
    /\ cpc = "notify"
    /\ toNotify = {}
    /\ mMutex' = "none"
    /\ oldTrace' = newTrace
    /\ cpc' = "loop"
    /\ UNCHANGED <<traceTag, toggles, newTrace, toNotify, cCur, mCallbacks,
                   mReadLogsEnabled, lpc, setParamsCalls>>
    /\ UNCHANGED <<prepVars, streamVars, treeVars, idVars>>

TraceNext ==
    \/ Toggle
    \/ \E l \in Loaders : L_Exchange(l)
    \/ \E l \in Loaders : L_SetParams(l)
    \/ \E l \in Loaders : L_Register(l)
    \/ C_Init
    \/ C_Sample
    \/ C_Lock
    \/ C_Exchange
    \/ C_SetParams
    \/ C_Unlock

TraceSpec == Init /\ [][TraceNext]_vars

(* ------------------------------------------------------------------ *)
(* verityTreeSizeForFile on its own                                     *)
(* ------------------------------------------------------------------ *)

TreeInit ==
    /\ PrepareInit
    /\ TraceVarsInit
    /\ IdVarsInit
    /\ treeFileSize \in 0 .. MaxTreeFileSize
    /\ treeResult = NotComputed

\* Lines 183-197, called with treeFileSize.
CallVerityTreeSize ==
    /\ treeResult = NotComputed
    /\ treeResult' = verityTreeSizeForFile(treeFileSize)
    /\ UNCHANGED treeFileSize
    /\ UNCHANGED <<prepVars, streamVars, traceVars, idVars>>

TreeNext == CallVerityTreeSize

TreeSpec == TreeInit /\ [][TreeNext]_vars

(* ------------------------------------------------------------------ *)
(* convertFileIndexToFileId and convertFileIdToFileIndex on their own   *)
(* ------------------------------------------------------------------ *)

IdInit ==
    /\ PrepareInit
    /\ TraceVarsInit
    /\ TreeVarsInit
    /\ idMode \in {DATA_ONLY_STREAMING, STREAMING}
    /\ idFileIdx \in FileIdxMin .. FileIdxMax
    /\ idFileId = kIncFsInvalidFileId
    /\ idBack = 0
    /\ idAgain = kIncFsInvalidFileId
    /\ ipc = 0

\* Lines 782-791, called with idMode and idFileIdx.
ToFileId ==
    /\ ipc = 0
    /\ idFileId' = convertFileIndexToFileId(idMode, idFileIdx)
    /\ ipc' = 1
    /\ UNCHANGED <<idMode, idFileIdx, idBack, idAgain>>
    /\ UNCHANGED <<prepVars, streamVars, traceVars, treeVars>>

\* Lines 763-780, called with the FileId obtained.
ToFileIndex ==
    /\ ipc = 1
    /\ idBack' = convertFileIdToFileIndex(idFileId)
    /\ ipc' = 2
    /\ UNCHANGED <<idMode, idFileIdx, idFileId, idAgain>>
    /\ UNCHANGED <<prepVars, streamVars, traceVars, treeVars>>

\* Lines 782-791, called with idMode and the index obtained.
ToFileIdAgain ==
    /\ ipc = 2
    /\ idAgain' = convertFileIndexToFileId(idMode, idBack)
    /\ ipc' = 3
    /\ UNCHANGED <<idMode, idFileIdx, idFileId, idBack>>
    /\ UNCHANGED <<prepVars, streamVars, traceVars, treeVars>>

IdNext ==
    \/ ToFileId
    \/ ToFileIndex
    \/ ToFileIdAgain

IdSpec == IdInit /\ [][IdNext]_vars

(* ------------------------------------------------------------------ *)
(* Properties of onPrepareImage, checked under Spec                     *)
(* ------------------------------------------------------------------ *)

\* C1: of the block instructions submitted to writeBlocks for one input,
\* every one has dataSize equal to the block size except at most one, whose
\* dataSize is strictly between 0 and the block size and which is the last
\* instruction emitted for that input.
C1_BlockSizeInvariant ==
    \A i \in 1 .. Len(submitted) :
        \/ submitted[i].dataSize = INCFS_DATA_FILE_BLOCK_SIZE
        \/ /\ i = Len(submitted)
           /\ 0 < submitted[i].dataSize
           /\ submitted[i].dataSize < INCFS_DATA_FILE_BLOCK_SIZE

\* An input copied in two flushes whose last block is short.
C1_Witness ==
    /\ ppc = "inputs"
    /\ nWriteCalls >= 2
    /\ Len(submitted) >= 3
    /\ submitted[Len(submitted)].dataSize < INCFS_DATA_FILE_BLOCK_SIZE

\* C2: the page indices of the instructions submitted for one input, in
\* submission order across all its flushes, are 0, 1, 2, ... without gap or
\* reuse, all of one kind; the cursor of the next instruction is their count,
\* so it restarts at 0 with each input.
C2_MonotonicPageIndices ==
    /\ \A i \in 1 .. Len(submitted) :
          /\ submitted[i].pageIndex = i - 1
          /\ submitted[i].kind = submitted[1].kind
    /\ blockIdx = Len(submitted)

\* The second input of a file (the data after the hash tree), submitted in
\* two flushes.
C2_Witness ==
    /\ ppc = "inputs"
    /\ Len(inputs) = 2
    /\ inputIx = 3
    /\ nWriteCalls >= 2
    /\ Len(submitted) >= 3
    /\ submitted[1].kind = INCFS_BLOCK_KIND_DATA

\* openInputs returned nothing, openForSpecialOps returned a negative fd, or
\* a read or a writeBlocks call of copyToIncFs returned a negative value.
PrepareFault == fault \in {"openInputs", "openForSpecialOps", "copy"}

\* C8: once openInputs has returned empty, openForSpecialOps a negative fd,
\* or copyToIncFs has failed, onPrepareImage has returned false and the
\* receiver is not started, and from then on no further file or input is
\* taken and no further writeBlocks call is made.
C8_PrepareAllOrNothing ==
    /\ [](PrepareFault =>
            /\ ppc = "done"
            /\ prepResult = "false"
            /\ ~receiverStarted
            /\ rpc = "off")
    /\ [][PrepareFault =>
            UNCHANGED <<fileCount, inputs, inputIx, nWriteCalls, submitted,
                        receiverStarted>>]_vars

\* copyToIncFs fails for the second file after a streaming fd was captured.
C8_Witness ==
    /\ fault = "copy"
    /\ streamingFd
    /\ fileCount = 2
    /\ prepResult = "false"

\* C9: a writeBlocks result that is non-negative but smaller than the number
\* of instructions submitted makes the flush fail, so onPrepareImage returns
\* false.
C9_PartialWriteFails ==
    (lastFlush.res >= 0 /\ lastFlush.res < lastFlush.count) =>
        (ppc = "done" /\ prepResult = "false")

\* C10: when the resolver returns -1 for the data file of a LOCAL_FILE
\* descriptor, onPrepareImage returns false, whatever it returned for the
\* .idsig file.
C10_MissingDataFileAborts ==
    missingData => (ppc = "done" /\ prepResult = "false")

\* C11: when the .idsig of a LOCAL_FILE descriptor is present and declares
\* a tree size other than verityTreeSizeForFile(size), openInputs returns
\* empty, onPrepareImage returns false, openForSpecialOps is not called for
\* the file and no block is written for it.
C11_IdsigMismatchAborts ==
    idsigMismatch =>
        /\ fault = "openInputs"
        /\ ppc = "done"
        /\ prepResult = "false"
        /\ nSpecialOps = fileCount - 1
        /\ nWriteCalls = 0
        /\ submitted = <<>>

\* The second file of the installation has a mismatching .idsig, its data
\* file being there.
C11_Witness ==
    /\ idsigMismatch
    /\ fileCount = 2
    /\ ~missingData

\* C12: in copyToIncFs with waitOnEof set, a read() that returns 0 leaves
\* the buffer (contents and length), the remaining byte count and the block
\* cursor as they were before the read.
C12_ZeroReadIsPureRetry ==
    [][(/\ ppc = "copy"
        /\ zeroReads' = zeroReads + 1
        /\ inputs[inputIx].waitOnEof)
       => (/\ buffer' = buffer
           /\ remaining' = remaining
           /\ blockIdx' = blockIdx)]_vars

\* C22: onPrepareImage calls initStreaming at most once, only after every
\* input of every file has been copied, and exactly when some input carried
\* the streaming flag; it gives it the mode of the first such input.
C22_StreamingStartedOnceForFirst ==
    /\ initCalls <= 1
    /\ initCalls = 1 =>
          /\ ppc = "done"
          /\ fault \in {"none", "initStreaming"}
          /\ initMode = firstStreaming
    /\ (ppc = "done" /\ fault \in {"none", "initStreaming"}) =>
          (initCalls = 1 <=> firstStreaming # NoMode)

\* C23 as stated: at every flush of copyToIncFs that is not the one at
\* eof, the buffer length is a whole multiple of the block size and the
\* flush leaves the buffer empty.
C23_NonEofFlushEmptiesBuffer ==
    (lastFlush # NoFlush /\ ~lastFlush.eof) =>
        /\ lastFlush.before % INCFS_DATA_FILE_BLOCK_SIZE = 0
        /\ lastFlush.after = 0

\* C23, amended: a flush that is not the one at eof submits every whole
\* block of the buffer and keeps the bytes after the last whole block,
\* fewer than one block, at the front of the buffer; the buffer is left
\* empty exactly when its length was a whole multiple of the block size.
C23_NonEofFlushKeepsTail ==
    [][(nWriteCalls' = nWriteCalls + 1 /\ ~lastFlush'.eof)
       => LET kept == Len(buffer) % INCFS_DATA_FILE_BLOCK_SIZE
          IN  /\ lastFlush'.count = Len(buffer) \div INCFS_DATA_FILE_BLOCK_SIZE
              /\ Len(submitted') = Len(submitted) + lastFlush'.count
              /\ buffer' = SubSeq(buffer, Len(buffer) - kept + 1, Len(buffer))
              /\ Len(buffer') < INCFS_DATA_FILE_BLOCK_SIZE]_vars

\* Reads of 5 and 2 bytes filled the buffer to one byte short of its
\* capacity: the flush wrote one block and kept three bytes.
C23_Witness ==
    /\ ppc = "copy"
    /\ zeroReads = 0
    /\ nWriteCalls = 1
    /\ ~lastFlush.eof
    /\ lastFlush.before = BUFFER_SIZE - 1
    /\ lastFlush.count = BLOCKS_COUNT - 1
    /\ Len(buffer) = INCFS_DATA_FILE_BLOCK_SIZE - 1
    /\ buffer[1] = INCFS_DATA_FILE_BLOCK_SIZE * (BLOCKS_COUNT - 1) + 1

\* The payloads of the blocks, one after the other.
RECURSIVE Payloads(_)
Payloads(blocks) ==
    IF blocks = <<>> THEN <<>>
    ELSE Head(blocks).data \o Payloads(Tail(blocks))

\* C24: when copyToIncFs has returned true for an input, the payloads of
\* the blocks submitted for it, in page order, are the bytes read from the
\* source and nothing else, and they are not more than the declared size.
C24_SubmittedIsSource ==
    (ppc = "inputs" /\ inputIx > 1) =>
        /\ Payloads(submitted) = SourceBytes(0, totalSize)
        /\ Len(Payloads(submitted)) <= inputs[inputIx - 1].size

(* ------------------------------------------------------------------ *)
(* Properties of the streaming session, checked under StreamSpec        *)
(* ------------------------------------------------------------------ *)

\* C3: once the receiver has read a chunk whose first header is the
\* sentinel, exactly one EXIT request has been sent in the session, no
\* further chunk is read, no block instruction is written, and the receiver
\* only goes on to leave its loop and end.
C3_SentinelStopsReceiver ==
    sentinelAt.seen =>
        /\ exitSends = 1
        /\ sentinelAt.exits = 0
        /\ chunksRead = sentinelAt.chunks
        /\ blocksWritten = sentinelAt.blocks
        /\ rpc \in {"exitSentinel", "write", "loop", "drain", "done"}
        /\ rpc = "loop" => mStopReceiving

\* The receiver has ended after a sentinel chunk that followed a data chunk,
\* while the peer had sent one more chunk.
C3_Witness ==
    /\ sentinelAt.seen
    /\ sentinelAt.chunks = 2
    /\ sentinelAt.blocks >= 1
    /\ rpc = "done"

\* C4 as stated: for every fileIdx at most one PREFETCH request is sent in a
\* session, failing sends included.
C4_AtMostOnePrefetchSent ==
    \A f \in FileIdxs : prefetchSends[f] <= 1

\* C4, amended: for every fileIdx at most one PREFETCH send succeeds in a
\* session, and once one has succeeded no further PREFETCH is sent for that
\* fileIdx; a PREFETCH whose send failed is sent again.
C4_AtMostOnePrefetchSucceeds ==
    /\ [](\A f \in FileIdxs : prefetchOk[f] <= 1)
    /\ [][\A f \in FileIdxs :
            prefetchOk[f] >= 1 => prefetchSends'[f] = prefetchSends[f]]_vars

\* A PREFETCH failed and the one sent again for the same file succeeded.
C4_Witness ==
    \E f \in FileIdxs :
        /\ prefetchSends[f] = 2
        /\ prefetchOk[f] = 1
        /\ f \in mRequestedFiles
        /\ qpc = "idle"

\* C5: once onStop has been called on a loader whose receiver thread was
\* started, the receiver ends and onStop returns (or the process has been
\* aborted), whatever the peer does on the channel.
C5_StopEndsReceiver ==
    (spc # "idle" /\ receiverStarted) ~>
        (rpc = "crashed" \/ (rpc = "done" /\ spc = "returned"))

\* C6: once onStop has returned, mOutFd is closed, and onPendingReads is
\* not past its check of mOutFd: it sends nothing.
C6_NoSendAfterStop ==
    spc = "returned" =>
        /\ ~mOutFd
        /\ qpc = "idle"
        /\ "pendingReads" \notin writing

\* onStop has returned in a session in which onPendingReads had sent a
\* PREFETCH, and onPendingReads has been called again.
C6_Witness ==
    /\ spc = "returned"
    /\ rpc = "done"
    /\ prefetchOk[0] = 1
    /\ prCalls = MaxPendingCalls
    /\ qpc = "idle"

\* C7: two request commands are never being written to the channel at the
\* same time.
C7_OutboundWritesSerialized ==
    Cardinality(writing) <= 1

\* C13: when the four bytes initStreaming reads from the channel are not
\* OKAY, or cannot be read, initStreaming fails: onPrepareImage returns
\* false, no receiver thread is started, mOutFd stays unset and no request
\* is ever sent on the channel.
C13_HandshakeRejected ==
    handshake \in {"NOPE", "short"} =>
        /\ prepResult = "false"
        /\ fault = "initStreaming"
        /\ ~receiverStarted
        /\ rpc = "off"
        /\ ~mOutFd
        /\ qpc = "idle"
        /\ writing = {}
        /\ exitSends = 0
        /\ \A f \in FileIdxs : prefetchSends[f] = 0 /\ prefetchOk[f] = 0
        /\ mRequestedFiles = {}

\* The handshake was NOPE, and onPendingReads and onStop have been called.
C13_Witness ==
    /\ handshake = "NOPE"
    /\ prCalls = MaxPendingCalls
    /\ spc # "idle"

\* C14: on every decode failure of the receiver, a chunk that readChunk
\* cannot read as well as a header with a negative field that is not the
\* sentinel, the receiver sets mStopReceiving and reports
\* DATA_LOADER_UNRECOVERABLE to the status listener as it leaves the loop.
C14_DecodeFailureStopsAndReports ==
    [][(\/ /\ rpc = "readChunk"
           /\ rpc' = "drain"
        \/ /\ rpc = "walk"
           /\ data.len - off > 0
           /\ ~isSentinel(readHeader(data, pos, off).header)
           /\ isInvalidHeader(readHeader(data, pos, off).header))
       => (/\ mStopReceiving'
           /\ statusReports' = statusReports + 1)]_vars

\* C15: outside the PREFETCH send itself, a fileIdx is in mRequestedFiles
\* if and only if a PREFETCH send for it has succeeded; an entry for a file
\* no PREFETCH has succeeded for attempts PREFETCH (again).
C15_RequestedIffPrefetchSucceeded ==
    /\ [](qpc # "prefetch" =>
            \A f \in FileIdxs : f \in mRequestedFiles <=> prefetchOk[f] >= 1)
    /\ [][(/\ qpc = "entries"
           /\ prCur' # -1
           /\ prefetchOk[prCur'] = 0)
          => (/\ qpc' = "prefetch"
              /\ prefetchSends'[prCur'] = prefetchSends[prCur'] + 1)]_vars

\* Two PREFETCH sends for one file have failed: the file is unmarked.
C15_Witness ==
    \E f \in FileIdxs :
        /\ prefetchSends[f] = 2
        /\ prefetchOk[f] = 0
        /\ f \notin mRequestedFiles
        /\ qpc = "idle"

\* C16: every entry of onPendingReads whose file id gives a FileIdx >= 0
\* makes exactly one sendRequest(BLOCK_MISSING) call, for the fileIdx and
\* the block of the entry, whether or not PREFETCH was sent or succeeded;
\* PREFETCH and BLOCK_MISSING are sent by onPendingReads alone, holding
\* mOutFdLock with mOutFd open, and a step of the receiver over a data chunk
\* sends no request.
C16_OneMissingPerEntry ==
    /\ [](missingSends = validEntries - (IF qpc = "prefetch" THEN 1 ELSE 0))
    /\ [](qpc = "missing" => lastSend = RequestCommand(BLOCK_MISSING, prCur, prBlock))
    /\ [](qpc = "prefetch" => lastSend = RequestCommand(PREFETCH, prCur, prBlock))
    /\ [][(prefetchSends' # prefetchSends \/ missingSends' # missingSends)
          => (/\ qpc \in {"entries", "prefetch"}
              /\ qpc' # qpc
              /\ mOutFd
              /\ mOutFdLock = "pendingReads"
              /\ UNCHANGED <<rpc, pos, off, instructions, exitSends>>)]_vars
    /\ [][(/\ rpc \in {"walk", "write"}
           /\ rpc' \in {"walk", "write", "loop"}
           /\ <<rpc, pos, off, instructions>>' # <<rpc, pos, off, instructions>>)
          => (/\ UNCHANGED <<exitSends, prefetchSends, missingSends, lastSend>>
              /\ "receiver" \notin writing')]_vars

\* The second entry for a file whose PREFETCH succeeded: BLOCK_MISSING is
\* sent for block 1 although no PREFETCH is attempted.
C16_Witness ==
    /\ qpc = "missing"
    /\ validEntries = 2
    /\ missingSends = 2
    /\ prCur \in FileIdxs
    /\ prefetchSends[prCur] = 1
    /\ prefetchOk[prCur] = 1
    /\ lastSend = RequestCommand(BLOCK_MISSING, prCur, 1)

\* C17: the instructions built from one chunk are all submitted by one
\* writeBlocks call, made before the next chunk is read: the pending
\* instructions always come from the chunk read last, none is pending when
\* a chunk is read, and each call of the receiver submits every pending one.
C17_OneBatchPerChunk ==
    /\ [](\A i \in DOMAIN instructions : instructions[i].chunk = chunksRead)
    /\ [](rpc \in {"off", "loop", "readChunk", "exitSignal", "drain", "done"}
            => instructions = <<>>)
    /\ [][chunksRead' # chunksRead => instructions = <<>> /\ instructions' = <<>>]_vars
    /\ [][writeCalls' # writeCalls
          => (/\ writeCalls' = writeCalls + 1
              /\ blocksWritten' = blocksWritten + Len(instructions)
              /\ instructions' = <<>>)]_vars

\* Two chunks were read and written, the second one with two instructions.
C17_Witness ==
    /\ chunksRead = 2
    /\ writeCalls = 2
    /\ blocksWritten = 3
    /\ rpc = "loop"

\* C25: every instruction the receiver has pushed for the chunk it walks
\* points at dataSize payload bytes that lie inside the chunk, and the
\* position of the walk is never past the end of the chunk.
C25_InstructionsInsideChunk ==
    /\ \A i \in DOMAIN instructions :
          instructions[i].offset + instructions[i].dataSize <= data.len
    /\ off <= data.len

\* C26: when onStop was called on a receiver that was in its loop and had
\* met no sentinel and no fatal error (no failed poll or read, no invalid
\* header), and the receiver has terminated without meeting one since, it
\* has sent EXIT to the peer.
C26_StopSendsExit ==
    (/\ rpc = "done"
     /\ stopWhileRunning
     /\ ~headerFault
     /\ statusReports = 0) => exitSends >= 1

(* ------------------------------------------------------------------ *)
(* Properties of the trace-tag watcher, checked under TraceSpec         *)
(* ------------------------------------------------------------------ *)

\* The value a loader's last setParams call passed, false before any call.
lastSetParams(l) ==
    IF setParamsCalls[l] = <<>>
    THEN FALSE
    ELSE setParamsCalls[l][Len(setParamsCalls[l])]

\* The loader is between the exchange and the setParams call of
\* updateReadLogsState.
inSetParams(l) ==
    \/ lpc[l] \in {"setParamsTrue", "setParamsFalse"}
    \/ cpc = "setParams" /\ cCur = l

\* C18: setParams is called for a loader only with a value other than the
\* one mReadLogsEnabled held, so the values passed to successive setParams
\* calls of a loader alternate, starting with true.
C18_SetParamsOnlyOnChange ==
    \A l \in Loaders :
        /\ \A i \in DOMAIN setParamsCalls[l] :
              setParamsCalls[l][i] = (i % 2 = 1)
        /\ IF inSetParams(l)
           THEN mReadLogsEnabled[l] # lastSetParams(l)
           ELSE mReadLogsEnabled[l] = lastSetParams(l)

\* A loader created with the tag off was told on, off and on again, while
\* the other loader, created with the tag on, got a notification that
\* changed nothing.
C18_Witness ==
    \E l, k \in Loaders :
        /\ setParamsCalls[l] = <<TRUE, FALSE, TRUE>>
        /\ setParamsCalls[k] = <<TRUE>>
        /\ lpc[k] = "created"
        /\ toggles = MaxToggles

\* C27: a created and registered loader follows the trace tag.  When the
\* watcher is at the head of its loop with oldTrace equal to the tag and
\* onCreate has returned, nothing is left that would update the loader
\* unless the tag changes again; so if the tag stops changing there, the
\* loader's readLogsEnabled and the value last given to setParams can be
\* equal to the tag eventually only if they are equal to it already.
C27_ReadLogsFollowsTag ==
    \A l \in Loaders :
        (/\ lpc[l] = "created"
         /\ l \in mCallbacks
         /\ cpc = "loop"
         /\ oldTrace = traceTag)
        => /\ mReadLogsEnabled[l] = traceTag
           /\ lastSetParams(l) = traceTag

(* ------------------------------------------------------------------ *)
(* Properties of verityTreeSizeForFile, checked under TreeSpec          *)
(* ------------------------------------------------------------------ *)

\* The ceiling of a / b for a >= 0 and b > 0: the least n with n * b >= a.
CeilingOf(a, b) == CHOOSE n \in 0 .. a : n * b >= a /\ (n = 0 \/ (n - 1) * b < a)

\* The sum the tree-size rule accumulates from B blocks: while B > 1, B
\* becomes the ceiling of B / hash_per_block and is added.
RECURSIVE TreeBlockSum(_)
TreeBlockSum(B) ==
    IF B > 1
    THEN LET up == CeilingOf(B, hash_per_block)
         IN  up + TreeBlockSum(up)
    ELSE 0

\* C19: for every file size S >= 0, verityTreeSizeForFile(S) is the block
\* size times the sum accumulated from B = ceil(S / block size) by setting
\* B to ceil(B / hash_per_block) and adding it while B > 1; a file of at
\* most one block has tree size 0.
C19_VerityTreeSize ==
    treeResult # NotComputed =>
        /\ treeResult = INCFS_DATA_FILE_BLOCK_SIZE *
              TreeBlockSum(CeilingOf(treeFileSize, INCFS_DATA_FILE_BLOCK_SIZE))
        /\ treeFileSize <= INCFS_DATA_FILE_BLOCK_SIZE => treeResult = 0

\* A file of 17 blocks: hash levels of 5, 2 and 1 blocks.
C19_Witness ==
    /\ treeFileSize = 16 * INCFS_DATA_FILE_BLOCK_SIZE + 1
    /\ treeResult = 8 * INCFS_DATA_FILE_BLOCK_SIZE

(* ------------------------------------------------------------------ *)
(* Properties of the FileId conversions, checked under IdSpec           *)
(* ------------------------------------------------------------------ *)

\* C20: for mode DATA_ONLY_STREAMING or STREAMING and every fileIdx of
\* int16_t, with x = convertFileIndexToFileId(mode, fileIdx):
\* convertFileIdToFileIndex(x) = fileIdx, and converting that index again
\* gives x.
C20_FileIdRoundTrip ==
    /\ ipc >= 2 => idBack = idFileIdx
    /\ ipc = 3 => idAgain = idFileId

\* The round trip of the least FileIdx.
C20_Witness ==
    /\ ipc = 3
    /\ idMode = STREAMING
    /\ idFileIdx = FileIdxMin
    /\ idFileId = FileId(STREAMING, <<"-", "3", "2", "7", "6", "8">>)
    /\ idAgain = idFileId

====
